---- MODULE Spec2Model ----
(***************************************************************************)
(* Model of felafax-service/main.py: the job records kept in Redis, the    *)
(* background task run_felafax_training that monitors one training process *)
(* and the request handlers start_fine_tuning and cancel_job.               *)
(*                                                                         *)
(* The service is one asyncio event loop.  run_felafax_training is an      *)
(* "async def" without a single await, so once the loop has started it the *)
(* loop runs nothing else until it returns; request handlers therefore     *)
(* take their steps only while no monitor is between its first and last    *)
(* statement (LoopFree).  Every store write of the monitor is nevertheless *)
(* a state of its own: Redis is an external server and each write can be   *)
(* read there.                                                             *)
(*                                                                         *)
(* created_at / updated_at are wall-clock stamps that no modelled          *)
(* condition reads; they are not part of the modelled record.              *)
(*                                                                         *)
(* Spec   : one job from submission to the end of its monitor, with the    *)
(*          Redis server failing and recovering at any time.               *)
(* SpecWS : ConnectionManager and the websocket_endpoint loops of the      *)
(*          subscribers of one job; a send_message call is suspended at    *)
(*          each awaited send_text, where other loops can run.             *)
(***************************************************************************)
EXTENDS Integers, Sequences, FiniteSets, TLC

\* ---------------------------------------------------------------- bounds
MaxLines == 2       \* lines an ordinary training process prints
MaxSockets == 2     \* websocket connections accepted
MaxLimit == 2       \* largest limit passed to list_jobs

\* ------------------------------------------------------ program constants
LogCap == 100             \* logs[-100:]
DefaultNumSteps == 1000   \* request.config.get('num_steps', 1000)
FullProgress == 100       \* min(..., 100) and job_dict['progress'] = 100.0

\* Job ids (uuid4 hex in the code).  Handlers and monitor of a job touch
\* only the key job:{job_id}; Jobs are the ids this specification drives.
JobIds == {"job_1", "job_2"}
Jobs == {"job_1"}

\* ------------------------------------------------------------ log lines
\* A line of process output is a sequence of tokens.  "ws" is blank space,
\* "nl" the line terminator readline() leaves on the line, "num" a maximal
\* run of digits with value n, "STEP" the word step in upper/mixed case,
\* "txt" any other text.
Tok(kind) == [k |-> kind, n |-> 0]
Num(v) == [k |-> "num", n |-> v]

LineStepHi == <<Tok("ws"), Tok("STEP"), Tok("ws"), Num(500), Tok("ws"), Tok("loss"), Tok("nl")>>
LineStepLo == <<Tok("step"), Num(200), Tok("ws"), Tok("loss"), Tok("nl")>>
LinePlain  == <<Tok("txt"), Tok("nl")>>
LineNoNum  == <<Tok("step"), Tok("txt"), Tok("ws"), Num(3), Tok("ws"), Tok("loss"), Tok("nl")>>

LineBlank  == <<Tok("nl")>>

OutputLines == {LineStepHi, LineStepLo, LinePlain, LineNoNum, LineBlank}

IsSpace(t) == t.k \in {"ws", "nl"}

\* str.lower()
LowerTok(t) == IF t.k = "STEP" THEN Tok("step") ELSE t
Lower(line) == [i \in 1..Len(line) |-> LowerTok(line[i])]

\* str.strip(): drop leading and trailing white space
Strip(line) ==
    LET keep == {i \in 1..Len(line) : ~IsSpace(line[i])}
    IN  IF keep = {} THEN << >>
        ELSE LET lo == CHOOSE i \in keep : \A m \in keep : i <= m
                 hi == CHOOSE i \in keep : \A m \in keep : m <= i
             IN  SubSeq(line, lo, hi)

\* 'word' in line.lower()
Contains(line, word) == \E i \in 1..Len(line) : Lower(line)[i].k = word

\* index of the digit run that r'step\s*(\d+)' captures when the match
\* starts at token i of the lowered line, 0 when it does not match there
RECURSIVE DigitsAfter(_, _)
DigitsAfter(low, i) ==
    IF i > Len(low) THEN 0
    ELSE IF low[i].k = "num" THEN i
    ELSE IF IsSpace(low[i]) THEN DigitsAfter(low, i + 1)
    ELSE 0

\* re.search(r'step\s*(\d+)', line.lower()): the set is empty when there is
\* no match, otherwise it holds int(step_match.group(1)) of the leftmost one
StepMatch(line) ==
    LET low == Lower(line)
        starts == {i \in 1..Len(low) : low[i].k = "step" /\ DigitsAfter(low, i + 1) # 0}
    IN  IF starts = {} THEN {}
        ELSE LET first == CHOOSE i \in starts : \A m \in starts : i <= m
             IN  {low[DigitsAfter(low, first + 1)].n}

\* ------------------------------------------------------- pure helpers
Min(a, b) == IF a <= b THEN a ELSE b

\* the first n entries instead of the last n
FirstN(s, n) == IF Len(s) <= n THEN s ELSE SubSeq(s, 1, n)

\* logs[-100:]
LastN(s, n) == IF Len(s) <= n THEN s ELSE SubSeq(s, Len(s) - n + 1, Len(s))

\* request.config is a dict: a function whose domain holds the keys present
NoConfig == [key \in {} |-> 0]
ConfigWith(steps) == [key \in {"num_steps"} |-> steps]
Configs == {NoConfig, ConfigWith(400), ConfigWith(0), ConfigWith(-400)}

\* request.config.get('num_steps', 1000)
NumSteps(config) ==
    IF "num_steps" \in DOMAIN config THEN config["num_steps"] ELSE DefaultNumSteps

\* lines 398-409: the progress stored after a line, given the stored one.
\* (step / max_steps) * 100 is exact for the step numbers and num_steps
\* values used here, so integer division stands for the float division.
\* A ZeroDivisionError is swallowed by the bare except (lines 408-409).
ParseProgress(line, config, old) ==
    IF Contains(line, "step") /\ Contains(line, "loss")
    THEN IF StepMatch(line) = {} \/ NumSteps(config) = 0
         THEN old
         ELSE LET step == CHOOSE v \in StepMatch(line) : TRUE
              IN  Min((step * 100) \div NumSteps(config), FullProgress)
    ELSE old

\* the exit code is ignored
FinalStatusIgnoringCode(rc) == "completed"

\* line 420
FinalStatus(rc) == IF rc = 0 THEN "completed" ELSE "failed"

\* lines 132-143: the record start_fine_tuning stores
NewJob(config) ==
    [status |-> "pending", progress |-> 0, logs |-> << >>, config |-> config]

\* ------------------------------------------------------ estimate_cost
\* Exact fractions stand for the floats of the code: [num, den] in lowest
\* terms with den > 0.
RECURSIVE Gcd(_, _)
Gcd(a, b) == IF b = 0 THEN a ELSE Gcd(b, a % b)

Abs(a) == IF a < 0 THEN -a ELSE a

Frac(n, d) ==
    LET g == Gcd(Abs(n), Abs(d))
        sign == IF d < 0 THEN -1 ELSE 1
    IN  [num |-> sign * (n \div g), den |-> sign * (d \div g)]

Times(x, y) == Frac(x.num * y.num, x.den * y.den)

\* lines 34-38
HardwareTypes == {"tpu", "trainium", "gpu", "amd"}

\* lines 110-115: 3.22, 4.03, 1.00, 0.80 dollars per hour
HARDWARE_COSTS(hardware) ==
    CASE hardware = "tpu"      -> Frac(322, 100)
      [] hardware = "trainium" -> Frac(403, 100)
      [] hardware = "gpu"      -> Frac(100, 100)
      [] hardware = "amd"      -> Frac(80, 100)

\* lines 270-278: model_size_factor.get(request.model, 1.0)
ModelNames == {"llama3-2-1b", "llama3-2-3b", "llama3-1-8b", "llama3-1-70b",
               "llama3-1-405b", "mistral-7b"}

BaseHours(model) ==
    CASE model = "llama3-2-1b"   -> Frac(10, 10)
      [] model = "llama3-2-3b"   -> Frac(25, 10)
      [] model = "llama3-1-8b"   -> Frac(60, 10)
      [] model = "llama3-1-70b"  -> Frac(500, 10)
      [] model = "llama3-1-405b" -> Frac(3000, 10)
      [] OTHER                   -> Frac(10, 10)

DefaultBatchSize == 8     \* request.config.get('batch_size', 8)
ReferenceBatchSize == 8   \* base_hours * (8 / batch_size)

BatchConfig(size) == [key \in {"batch_size"} |-> size]
BatchSizes == {-8, 0, 1, 3, 4, 8, 16}
BatchConfigs == {NoConfig} \cup {BatchConfig(b) : b \in BatchSizes}

\* line 279
BatchSize(config) ==
    IF "batch_size" \in DOMAIN config THEN config["batch_size"] ELSE DefaultBatchSize

\* the batch size is left out of the duration
EstimatedHoursIgnoringBatch(model, batch_size) == BaseHours(model)

\* line 280, for batch_size # 0
EstimatedHours(model, batch_size) ==
    Times(BaseHours(model), Frac(ReferenceBatchSize, batch_size))

Zero == Frac(0, 1)

\* lines 267-294: the response.  8 / 0 raises ZeroDivisionError, which the
\* except clause turns into HTTPException(status_code=500); every other
\* batch size, negative ones included, gets a CostEstimate (status 200).
CostResponse(model, hardware, config) ==
    IF BatchSize(config) = 0
    THEN [status |-> 500, duration_hours |-> Zero, estimated_cost |-> Zero,
          cost_per_hour |-> Zero, hardware_type |-> hardware]
    ELSE LET hours == EstimatedHours(model, BatchSize(config))
         IN  [status |-> 200, duration_hours |-> hours,
              estimated_cost |-> Times(hours, HARDWARE_COSTS(hardware)),
              cost_per_hour |-> HARDWARE_COSTS(hardware),
              hardware_type |-> hardware]

NoEstimate ==
    [model |-> "", hardware |-> "", config |-> NoConfig,
     response |-> [status |-> 0, duration_hours |-> Zero, estimated_cost |-> Zero,
                   cost_per_hour |-> Zero, hardware_type |-> ""]]

\* ---------------------------------------------------------- list_jobs
UserConfig(user) == [key \in {"user_id"} |-> user]
Users == {"alice", "bob"}
UserConfigs == {NoConfig} \cup {UserConfig(u) : u \in Users}

\* the user_id query parameter: {} is None, {u} the string u
UserFilters == {{}} \cup {{u} : u \in Users}

\* line 200: user_id is None or job.config.get('user_id') == user_id
MatchesUser(record, user_id) ==
    \/ user_id = {}
    \/ "user_id" \in DOMAIN record.config /\ record.config["user_id"] \in user_id

\* job_keys[:limit] for limit >= 0
Take(keys, limit) == IF Len(keys) <= limit THEN keys ELSE SubSeq(keys, 1, limit)

\* the orders in which redis_client.keys("job:*") may return the keys
KeyOrders(keyset) ==
    {order \in UNION {[1..n -> keyset] : n \in {Cardinality(keyset)}} :
        \A a, b \in 1..Cardinality(keyset) : a # b => order[a] # order[b]}

NoListing == [user_id |-> {}, limit |-> 0, status |-> 0, jobs |-> << >>]

\* ---------------------------------------------------------------- state
VARIABLES
    redis,        \* key job:{id} -> stored record; DOMAIN = keys present
    redisUp,      \* FALSE while calls to the Redis server raise
    request,      \* the request.config each background task was given
    pc,           \* where run_felafax_training of each job stands
    logs,         \* the monitor's local list "logs"
    proc,         \* the training process: "none", "running", "exited"
    chatty,       \* TRUE for a process that prints more than LogCap lines
    emitted,      \* the lines the monitor has read from process.stdout
    return_code,  \* process.wait()
    files,        \* job ids whose /tmp/{job_id}_config.yml exists
    active_connections,  \* manager.active_connections: job id -> list
    sock,         \* the client end of each websocket
    ws_job,       \* the job_id path parameter of each websocket_endpoint
    hpc,          \* where websocket_endpoint of each websocket stands
    iter,         \* send_message: index of the list iterator (items taken)
    conn,         \* send_message: the loop variable "connection"
    owed,         \* send_message: the connections that were in the list
                  \* when the call began and that it has not sent to
    job_data,     \* websocket_endpoint: the record read at line 341
                  \* ({} when there is none)
    inbox,        \* the last text each websocket client received
    estimate,     \* the last estimate_cost request with its response
    listing       \* the last list_jobs request with its response

jobvars == <<redis, redisUp, request, pc, logs, proc, chatty, emitted, return_code, files>>
wsvars == <<active_connections, sock, ws_job, hpc, iter, conn, owed, job_data, inbox>>
apivars == <<estimate, listing>>
vars == <<jobvars, wsvars, apivars>>

Sockets == 1..MaxSockets

ReturnCodes == {0, 1}
NoReturnCode == -1

Statuses == {"pending", "running", "completed", "failed", "cancelled"}
Terminal == {"completed", "failed", "cancelled"}

\* positions of run_felafax_training between its first and last statement
Active == {"config", "spawn", "read", "wait", "final", "except"}
\* positions after it has returned or raised
Ended == {"done", "handled", "crashed"}

\* the event loop is not inside a run_felafax_training call
LoopFree == \A j \in JobIds : pc[j] \notin Active

Init ==
    /\ redis = [key \in {} |-> NewJob(NoConfig)]
    /\ redisUp = TRUE
    /\ request = [j \in JobIds |-> NoConfig]
    /\ pc = [j \in JobIds |-> "none"]
    /\ logs = [j \in JobIds |-> << >>]
    /\ proc = [j \in JobIds |-> "none"]
    /\ chatty = [j \in JobIds |-> FALSE]
    /\ emitted = [j \in JobIds |-> << >>]
    /\ return_code = [j \in JobIds |-> NoReturnCode]
    /\ files = {}
    /\ active_connections = [key \in {} |-> << >>]
    /\ sock = [w \in Sockets |-> "unused"]
    /\ ws_job = [w \in Sockets |-> "job_1"]
    /\ hpc = [w \in Sockets |-> "none"]
    /\ iter = [w \in Sockets |-> 0]
    /\ conn = [w \in Sockets |-> 0]
    /\ owed = [w \in Sockets |-> {}]
    /\ job_data = [w \in Sockets |-> {}]
    /\ inbox = [w \in Sockets |-> {}]
    /\ estimate = NoEstimate
    /\ listing = NoListing

\* ------------------------------------------------------------ handlers
\* POST /felafax/tune (lines 126-161).  A failing redis set raises before
\* add_task, so nothing is stored and no task is queued.
start_fine_tuning(j, config) ==
    /\ LoopFree
    /\ redisUp
    /\ j \notin DOMAIN redis
    /\ pc[j] = "none"
    /\ redis' = redis @@ (j :> NewJob(config))
    /\ request' = [request EXCEPT ![j] = config]
    /\ pc' = [pc EXCEPT ![j] = "queued"]
    /\ UNCHANGED <<redisUp, logs, proc, chatty, emitted, return_code, files, wsvars, apivars>>

\* DELETE /felafax/jobs/{job_id} (lines 210-232).  Absent key: 404; failing
\* store call: 500; in both cases nothing is written.
cancel_job(j) ==
    /\ LoopFree
    /\ redisUp
    /\ j \in DOMAIN redis
    /\ redis' = [redis EXCEPT ![j].status = "cancelled"]
    /\ UNCHANGED <<redisUp, request, pc, logs, proc, chatty, emitted, return_code, files, wsvars, apivars>>

\* ------------------------------------------- run_felafax_training steps
\* lines 350-357: the loop starts the queued task, which marks the job
\* running whatever its stored status is
MarkRunning(j) ==
    /\ LoopFree
    /\ pc[j] = "queued"
    /\ IF redisUp
       THEN /\ redis' = IF j \in DOMAIN redis
                        THEN [redis EXCEPT ![j].status = "running"]
                        ELSE redis
            /\ pc' = [pc EXCEPT ![j] = "config"]
       ELSE /\ pc' = [pc EXCEPT ![j] = "except"]
            /\ UNCHANGED redis
    /\ UNCHANGED <<redisUp, request, logs, proc, chatty, emitted, return_code, files, wsvars, apivars>>

\* lines 359-363: open() may fail (no file), yaml import/dump may fail after
\* open() has created the file
ConfigOutcomes == {"written", "open_fails", "dump_fails"}

WriteConfig(j, outcome) ==
    /\ pc[j] = "config"
    /\ files' = IF outcome = "open_fails" THEN files ELSE files \cup {j}
    /\ pc' = [pc EXCEPT ![j] = IF outcome = "written" THEN "spawn" ELSE "except"]
    /\ UNCHANGED <<redis, redisUp, request, logs, proc, chatty, emitted, return_code, wsvars, apivars>>

\* lines 376-385: subprocess.Popen either starts the trainer or raises
Spawn(j, started, talkative) ==
    /\ pc[j] = "spawn"
    /\ IF started
       THEN /\ proc' = [proc EXCEPT ![j] = "running"]
            /\ chatty' = [chatty EXCEPT ![j] = talkative]
            /\ pc' = [pc EXCEPT ![j] = "read"]
       ELSE /\ talkative = FALSE
            /\ pc' = [pc EXCEPT ![j] = "except"]
            /\ UNCHANGED <<proc, chatty>>
    /\ UNCHANGED <<redis, redisUp, request, logs, emitted, return_code, files, wsvars, apivars>>

\* what the process prints: an ordinary one any of OutputLines, at most
\* MaxLines of them; a chatty one a fixed rotation, LogCap + MaxLines lines
ChattyLine(i) ==
    CASE i % 3 = 1 -> LineStepLo
      [] i % 3 = 2 -> LinePlain
      [] OTHER     -> LineStepHi

NextOutput(j) ==
    IF chatty[j]
    THEN IF Len(emitted[j]) < LogCap + MaxLines
         THEN {ChattyLine(Len(emitted[j]) + 1)} ELSE {}
    ELSE IF Len(emitted[j]) < MaxLines THEN OutputLines ELSE {}

\* lines 386-411: one iteration of the for loop
ReadLine(j, line) ==
    /\ pc[j] = "read"
    /\ line \in NextOutput(j)
    /\ emitted' = [emitted EXCEPT ![j] = Append(@, line)]
    /\ logs' = [logs EXCEPT ![j] = Append(@, Strip(line))]
    /\ IF redisUp
       THEN /\ redis' = IF j \in DOMAIN redis
                        THEN [redis EXCEPT
                                ![j].logs = LastN(logs'[j], LogCap),
                                ![j].progress = ParseProgress(line, request[j], @)]
                        ELSE redis
            /\ UNCHANGED pc
       ELSE /\ pc' = [pc EXCEPT ![j] = "except"]
            /\ UNCHANGED redis
    /\ UNCHANGED <<redisUp, request, proc, chatty, return_code, files, wsvars, apivars>>

\* line 386: readline() raises (e.g. undecodable output)
ReadFault(j) ==
    /\ pc[j] = "read"
    /\ pc' = [pc EXCEPT ![j] = "except"]
    /\ UNCHANGED <<redis, redisUp, request, logs, proc, chatty, emitted, return_code, files, wsvars, apivars>>

\* line 386: readline() returns '' at end of stream
EndOfStream(j) ==
    /\ pc[j] = "read"
    /\ pc' = [pc EXCEPT ![j] = "wait"]
    /\ UNCHANGED <<redis, redisUp, request, logs, proc, chatty, emitted, return_code, files, wsvars, apivars>>

\* line 414: process.wait() returns the exit code
ProcessExit(j, rc) ==
    /\ pc[j] = "wait"
    /\ proc' = [proc EXCEPT ![j] = "exited"]
    /\ return_code' = [return_code EXCEPT ![j] = rc]
    /\ pc' = [pc EXCEPT ![j] = "final"]
    /\ UNCHANGED <<redis, redisUp, request, logs, chatty, emitted, files, wsvars, apivars>>

\* lines 416-425
FinalUpdate(j) ==
    /\ pc[j] = "final"
    /\ IF redisUp
       THEN /\ redis' = IF j \in DOMAIN redis
                        THEN [redis EXCEPT
                                ![j].status = FinalStatus(return_code[j]),
                                ![j].progress = FullProgress]
                        ELSE redis
            /\ pc' = [pc EXCEPT ![j] = "done"]
       ELSE /\ pc' = [pc EXCEPT ![j] = "except"]
            /\ UNCHANGED redis
    /\ UNCHANGED <<redisUp, request, logs, proc, chatty, emitted, return_code, files, wsvars, apivars>>

\* lines 427-436: the handler; when its own store call raises, the
\* exception leaves run_felafax_training
HandleException(j) ==
    /\ pc[j] = "except"
    /\ IF redisUp
       THEN /\ redis' = IF j \in DOMAIN redis
                        THEN [redis EXCEPT ![j].status = "failed"]
                        ELSE redis
            /\ pc' = [pc EXCEPT ![j] = "handled"]
       ELSE /\ pc' = [pc EXCEPT ![j] = "crashed"]
            /\ UNCHANGED redis
    /\ UNCHANGED <<redisUp, request, logs, proc, chatty, emitted, return_code, files, wsvars, apivars>>

\* --------------------------------------------------------- environment
\* the Redis server becomes unreachable / reachable again
RedisFails ==
    /\ redisUp
    /\ redisUp' = FALSE
    /\ UNCHANGED <<redis, request, pc, logs, proc, chatty, emitted, return_code, files, wsvars, apivars>>

RedisRecovers ==
    /\ ~redisUp
    /\ redisUp' = TRUE
    /\ UNCHANGED <<redis, request, pc, logs, proc, chatty, emitted, return_code, files, wsvars, apivars>>

Next ==
    \/ \E j \in Jobs, config \in Configs : start_fine_tuning(j, config)
    \/ \E j \in Jobs : cancel_job(j)
    \/ \E j \in Jobs : MarkRunning(j)
    \/ \E j \in Jobs, outcome \in ConfigOutcomes : WriteConfig(j, outcome)
    \/ \E j \in Jobs, started \in BOOLEAN, talkative \in BOOLEAN : Spawn(j, started, talkative)
    \/ \E j \in Jobs, line \in OutputLines : ReadLine(j, line)
    \/ \E j \in Jobs : ReadFault(j)
    \/ \E j \in Jobs : EndOfStream(j)
    \/ \E j \in Jobs, rc \in ReturnCodes : ProcessExit(j, rc)
    \/ \E j \in Jobs : FinalUpdate(j)
    \/ \E j \in Jobs : HandleException(j)
    \/ RedisFails
    \/ RedisRecovers

Spec == Init /\ [][Next]_vars

\* ------------------------------------------- ConnectionManager, websocket
\* list.remove(x): drop the first occurrence (the caller checks x is there)
RemoveFirst(list, x) ==
    LET at == CHOOSE i \in 1..Len(list) :
                  list[i] = x /\ \A m \in 1..(i - 1) : list[m] # x
    IN  SubSeq(list, 1, at - 1) \o SubSeq(list, at + 1, Len(list))

InList(list, x) == \E i \in 1..Len(list) : list[i] = x

\* lines 337, 86-90: accept the websocket and append it to the job's list.
\* Websockets are interchangeable, so they are taken in the order 1, 2, ...
connect(w, j) ==
    /\ LoopFree
    /\ hpc[w] = "none"
    /\ \A v \in Sockets : v < w => hpc[v] # "none"
    /\ sock' = [sock EXCEPT ![w] = "open"]
    /\ ws_job' = [ws_job EXCEPT ![w] = j]
    /\ active_connections' =
          IF j \in DOMAIN active_connections
          THEN [active_connections EXCEPT ![j] = Append(@, w)]
          ELSE active_connections @@ (j :> <<w>>)
    /\ hpc' = [hpc EXCEPT ![w] = "loop"]
    /\ UNCHANGED <<iter, conn, owed, job_data, inbox, jobvars, apivars>>

\* line 100: the list iterator hands out list[index] and moves on, or the
\* for loop (and with it send_message) ends; the code then runs without
\* suspending up to the next await (send_text, or asyncio.sleep)
Advance(w, list, index) ==
    IF index < Len(list)
    THEN /\ conn' = [conn EXCEPT ![w] = list[index + 1]]
         /\ iter' = [iter EXCEPT ![w] = index + 1]
         /\ hpc' = [hpc EXCEPT ![w] = "await"]
    ELSE /\ conn' = [conn EXCEPT ![w] = 0]
         /\ iter' = [iter EXCEPT ![w] = 0]
         /\ hpc' = [hpc EXCEPT ![w] = "sleep"]

Range(list) == {list[i] : i \in 1..Len(list)}

\* lines 341-343, 98-100: read the record; when there is one, send_message
\* starts iterating the job's list
Poll(w) ==
    /\ LoopFree
    /\ hpc[w] = "loop"
    /\ IF ~redisUp
       THEN /\ hpc' = [hpc EXCEPT ![w] = "crashed"]
            /\ UNCHANGED <<iter, conn, owed, job_data>>
       ELSE IF ws_job[w] \in DOMAIN redis /\ ws_job[w] \in DOMAIN active_connections
       THEN /\ job_data' = [job_data EXCEPT ![w] = {redis[ws_job[w]]}]
            /\ owed' = [owed EXCEPT ![w] = Range(active_connections[ws_job[w]])]
            /\ Advance(w, active_connections[ws_job[w]], 0)
       ELSE /\ job_data' = [job_data EXCEPT ![w] =
                               IF ws_job[w] \in DOMAIN redis
                               THEN {redis[ws_job[w]]} ELSE {}]
            /\ hpc' = [hpc EXCEPT ![w] = "sleep"]
            /\ UNCHANGED <<iter, conn, owed>>
    /\ UNCHANGED <<active_connections, sock, ws_job, inbox, jobvars, apivars>>

\* line 102 returns: the text went out to an open connection
SendReturns(w) ==
    /\ LoopFree
    /\ hpc[w] = "await"
    /\ sock[conn[w]] = "open"
    /\ inbox' = [inbox EXCEPT ![conn[w]] = job_data[w]]
    /\ owed' = [owed EXCEPT ![w] = @ \ {conn[w]}]
    /\ Advance(w, active_connections[ws_job[w]], iter[w])
    /\ UNCHANGED <<active_connections, sock, ws_job, job_data, jobvars, apivars>>

\* lines 102-105: send_text raises on a closed connection and the handler
\* removes it from the list being iterated; list.remove raises ValueError
\* when it is not there any more, which leaves send_message and
\* websocket_endpoint (only WebSocketDisconnect is caught there)
SendRaises(w) ==
    /\ LoopFree
    /\ hpc[w] = "await"
    /\ sock[conn[w]] = "closed"
    /\ IF InList(active_connections[ws_job[w]], conn[w])
       THEN /\ active_connections' =
                  [active_connections EXCEPT ![ws_job[w]] = RemoveFirst(@, conn[w])]
            /\ Advance(w, active_connections'[ws_job[w]], iter[w])
       ELSE /\ hpc' = [hpc EXCEPT ![w] = "raised"]
            /\ conn' = [conn EXCEPT ![w] = 0]
            /\ iter' = [iter EXCEPT ![w] = 0]
            /\ UNCHANGED active_connections
    /\ UNCHANGED <<sock, ws_job, owed, job_data, inbox, jobvars, apivars>>

\* line 344: asyncio.sleep(5) is over and the while loop goes round
Wake(w) ==
    /\ LoopFree
    /\ hpc[w] = "sleep"
    /\ hpc' = [hpc EXCEPT ![w] = "loop"]
    /\ owed' = [owed EXCEPT ![w] = {}]
    /\ UNCHANGED <<active_connections, sock, ws_job, iter, conn, job_data, inbox, jobvars, apivars>>

\* the client goes away: sends to it raise from now on
ClientCloses(w) ==
    /\ sock[w] \in {"open", "stalled"}
    /\ sock' = [sock EXCEPT ![w] = "closed"]
    /\ UNCHANGED <<active_connections, ws_job, hpc, iter, conn, owed, job_data, inbox, jobvars, apivars>>

\* the client stops reading: a send to it does not complete
ClientStalls(w) ==
    /\ sock[w] = "open"
    /\ sock' = [sock EXCEPT ![w] = "stalled"]
    /\ UNCHANGED <<active_connections, ws_job, hpc, iter, conn, owed, job_data, inbox, jobvars, apivars>>

NextWS ==
    \/ \E j \in Jobs : start_fine_tuning(j, NoConfig)
    \/ \E w \in Sockets, j \in Jobs : connect(w, j)
    \/ \E w \in Sockets : Poll(w)
    \/ \E w \in Sockets : SendReturns(w)
    \/ \E w \in Sockets : SendRaises(w)
    \/ \E w \in Sockets : Wake(w)
    \/ \E w \in Sockets : ClientCloses(w)
    \/ \E w \in Sockets : ClientStalls(w)

SpecWS == Init /\ [][NextWS]_vars

\* ------------------------------------------------- estimate_cost, list_jobs
\* POST /felafax/cost-estimate (lines 264-294)
estimate_cost(model, hardware, config) ==
    /\ LoopFree
    /\ estimate' = [model |-> model, hardware |-> hardware, config |-> config,
                    response |-> CostResponse(model, hardware, config)]
    /\ UNCHANGED <<jobvars, wsvars, listing>>

NextCost ==
    \E model \in ModelNames, hardware \in HardwareTypes, config \in BatchConfigs :
        estimate_cost(model, hardware, config)

SpecCost == Init /\ [][NextCost]_vars

\* GET /felafax/jobs (lines 183-207): the keys are cut to the first "limit"
\* ones, then the records behind them are filtered by user
list_jobs(user_id, limit) ==
    /\ LoopFree
    /\ redisUp
    /\ \E job_keys \in KeyOrders(DOMAIN redis) :
          listing' = [user_id |-> user_id, limit |-> limit, status |-> 200,
                      jobs |-> SelectSeq(Take(job_keys, limit),
                                         LAMBDA key : MatchesUser(redis[key], user_id))]
    /\ UNCHANGED <<jobvars, wsvars, estimate>>

NextList ==
    \/ \E j \in JobIds, config \in UserConfigs : start_fine_tuning(j, config)
    \/ \E user_id \in UserFilters, limit \in 0..MaxLimit : list_jobs(user_id, limit)

SpecList == Init /\ [][NextList]_vars

\* Two jobs side by side, each with an ordinary process that prints plain
\* lines and a store that stays up: who may step while a monitor runs.
NextIso ==
    \/ \E j \in JobIds : start_fine_tuning(j, NoConfig)
    \/ \E j \in JobIds : cancel_job(j)
    \/ \E j \in JobIds : MarkRunning(j)
    \/ \E j \in JobIds : WriteConfig(j, "written")
    \/ \E j \in JobIds : Spawn(j, TRUE, FALSE)
    \/ \E j \in JobIds, line \in {LinePlain, LineStepHi} : ReadLine(j, line)
    \/ \E j \in JobIds : EndOfStream(j)
    \/ \E j \in JobIds, rc \in ReturnCodes : ProcessExit(j, rc)
    \/ \E j \in JobIds : FinalUpdate(j)

SpecIso == Init /\ [][NextIso]_vars

\* One job with subscribers: the monitor of an ordinary process next to the
\* websocket handlers of clients that stay connected and keep reading.
NextPush ==
    \/ \E j \in Jobs : start_fine_tuning(j, NoConfig)
    \/ \E j \in Jobs : MarkRunning(j)
    \/ \E j \in Jobs : WriteConfig(j, "written")
    \/ \E j \in Jobs : Spawn(j, TRUE, FALSE)
    \/ \E j \in Jobs, line \in {LineStepHi, LineStepLo} : ReadLine(j, line)
    \/ \E j \in Jobs : EndOfStream(j)
    \/ \E j \in Jobs, rc \in ReturnCodes : ProcessExit(j, rc)
    \/ \E j \in Jobs : FinalUpdate(j)
    \/ \E w \in Sockets, j \in Jobs : connect(w, j)
    \/ \E w \in Sockets : Poll(w)
    \/ \E w \in Sockets : SendReturns(w)
    \/ \E w \in Sockets : Wake(w)

SpecPush == Init /\ [][NextPush]_vars

TypeOK ==
    /\ DOMAIN redis \subseteq JobIds
    /\ \A j \in DOMAIN redis : redis[j].status \in Statuses
    /\ \A j \in JobIds : pc[j] \in {"none", "queued"} \cup Active \cup Ended

\* ======================================================== job lifecycle
\* C1: every change of a job's stored status follows one of the edges
\* pending->running, pending->cancelled, running->completed,
\* running->failed, running->cancelled; a completed, failed or cancelled
\* job never changes status again.
C1_StatusFollowsEdges ==
    [][\A j \in DOMAIN redis :
          redis'[j].status # redis[j].status
             => <<redis[j].status, redis'[j].status>> \in
                   { <<"pending", "running">>, <<"pending", "cancelled">>,
                     <<"running", "completed">>, <<"running", "failed">>,
                     <<"running", "cancelled">> }]_vars

\* C2: a job cancelled while pending (its background task still queued)
\* does not become running afterwards.
C2_CancelledPendingNeverRuns ==
    [][\A j \in DOMAIN redis :
          (redis[j].status = "cancelled" /\ pc[j] = "queued")
             => redis'[j].status # "running"]_vars

\* C3: while a job is running its stored progress never decreases from one
\* store write to the next.  Stated for jobs whose num_steps is positive,
\* where only a smaller step number can lower the computed value.
C3_ProgressNeverDecreases ==
    [][\A j \in DOMAIN redis :
          (/\ NumSteps(redis[j].config) > 0
           /\ redis[j].status = "running"
           /\ redis'[j].status = "running")
             => redis'[j].progress >= redis[j].progress]_vars

\* C4: the final update that run_felafax_training makes after the output
\* stream has ended and the process has exited with code c stores status
\* completed when c = 0 and failed when c # 0, and progress 100.
C4_FinalStatusByExitCode ==
    [][\A j \in DOMAIN redis :
          (pc[j] = "final" /\ pc'[j] = "done")
             => /\ return_code[j] = 0 => redis'[j].status = "completed"
                /\ return_code[j] # 0 => redis'[j].status = "failed"
                /\ redis'[j].progress = 100]_vars

C4_Witness ==
    \E j \in DOMAIN redis :
        /\ pc[j] = "done"
        /\ return_code[j] = 1
        /\ Len(emitted[j]) >= 1
        /\ redis[j].status = "failed"
        /\ redis[j].progress = 100

\* the monitor has stored every line it has read so far
LinesStored(j) == pc[j] \in {"read", "wait", "final", "done"} /\ Len(emitted[j]) >= 1

\* C5 as stated: the stored logs hold at most 100 lines, and after n >= 1
\* processed lines they are exactly the last min(n, 100) emitted lines in
\* emission order.
C5_LogsAreEmittedLines ==
    \A j \in DOMAIN redis :
        /\ Len(redis[j].logs) <= 100
        /\ LinesStored(j) =>
              LET n == Len(emitted[j])
                  m == IF n <= 100 THEN n ELSE 100
              IN  /\ Len(redis[j].logs) = m
                  /\ \A i \in 1..m : redis[j].logs[i] = emitted[j][n - m + i]

\* C5 amended: the stored logs hold at most 100 lines, and after n >= 1
\* processed lines they are the last min(n, 100) emitted lines in emission
\* order, each with its leading and trailing white space (the line
\* terminator included) removed.
C5_LogsAreStrippedTail ==
    \A j \in DOMAIN redis :
        /\ Len(redis[j].logs) <= 100
        /\ LinesStored(j) =>
              LET n == Len(emitted[j])
                  m == IF n <= 100 THEN n ELSE 100
              IN  /\ Len(redis[j].logs) = m
                  /\ \A i \in 1..m :
                        LET raw == emitted[j][n - m + i]
                        IN  \/ /\ redis[j].logs[i] = << >>
                               /\ \A x \in 1..Len(raw) : raw[x].k \in {"ws", "nl"}
                            \/ \E lo, hi \in 1..Len(raw) :
                                  /\ redis[j].logs[i] = SubSeq(raw, lo, hi)
                                  /\ \A x \in 1..Len(raw) :
                                        (x < lo \/ x > hi) => raw[x].k \in {"ws", "nl"}
                                  /\ raw[lo].k \notin {"ws", "nl"}
                                  /\ raw[hi].k \notin {"ws", "nl"}

C5_Witness ==
    \E j \in DOMAIN redis :
        /\ pc[j] = "read"
        /\ Len(emitted[j]) = 101
        /\ Len(redis[j].logs) = 100
        /\ redis[j].logs[100] = Strip(emitted[j][101])

\* C6: once run_felafax_training has ended for a job, the job is not left
\* with stored status running.
C6_NeverStuckRunning ==
    \A j \in DOMAIN redis : pc[j] \in Ended => redis[j].status # "running"

\* C7: cancel_job on a job whose stored status is already completed, failed
\* or cancelled leaves the stored record unchanged.
C7_CancelTerminalIsNoOp ==
    [][\A j \in DOMAIN redis :
          (redis[j].status \in {"completed", "failed", "cancelled"} /\ cancel_job(j))
             => redis'[j] = redis[j]]_vars

\* ========================================================== websockets
\* C8: when a send_message call has returned, every subscriber that was in
\* the job's list when the call began and to which a send succeeds (its
\* connection is open) has been sent the message by that call, however many
\* other subscribers failed and were removed during the call.
C8_EveryLiveSubscriberServed ==
    \A w \in Sockets :
        hpc[w] = "sleep" => \A x \in owed[w] : sock[x] # "open"

\* C9: under any interleaving of concurrent send_message calls for the same
\* job, no send_message call raises an error.
C9_SendMessageNeverRaises ==
    \A w \in Sockets : hpc[w] # "raised"

\* C10: a subscriber whose send does not complete holds up nobody: while a
\* send_message call waits on such a subscriber, no open subscriber of the
\* call's list is still waiting for the message.
C10_SlowSubscriberBlocksNobody ==
    \A w \in Sockets :
        (hpc[w] = "await" /\ sock[conn[w]] = "stalled") =>
            \A x \in owed[w] : sock[x] # "open"

\* ============================================== monitor: resources, order
\* C15: whenever run_felafax_training has ended for a job (process exit
\* with any code, spawn failure, or a fault while monitoring) the job's
\* temporary config file no longer exists.
C15_ConfigFileReleased ==
    \A j \in JobIds : pc[j] \in Ended => j \notin files

\* C16: in every state where a job's stored status is running, its config
\* file was written and its training process was started.
C16_RunningOnlyAfterSpawn ==
    \A j \in DOMAIN redis :
        redis[j].status = "running" => (j \in files /\ proc[j] # "none")

\* C17: a job whose stored status is completed or failed has stored
\* progress exactly 100, also when it became failed through the monitor's
\* exception path.
C17_FinishedMeansFullProgress ==
    \A j \in DOMAIN redis :
        redis[j].status \in {"completed", "failed"} => redis[j].progress = 100

\* C18: the stored progress of a job lies in [0, 100] for every parsed step
\* number and every integer num_steps, zero and negative values included.
C18_ProgressWithinRange ==
    \A j \in DOMAIN redis : redis[j].progress >= 0 /\ redis[j].progress <= 100

\* ======================================================== cost estimate
\* C13: for every model, hardware type and batch_size > 0, estimate_cost
\* returns duration_hours = baseHours(model) * 8 / batch_size (baseHours 1.0
\* for a model not in the table) and estimated_cost = duration_hours *
\* HARDWARE_COSTS[hardware]; doubling batch_size halves duration_hours; and
\* (llama3-2-1b, gpu, batch_size 8) gives hours 1.0 and cost 1.00.
C13_EstimateIsLinearInBatch ==
    LET r == estimate.response
        b == BatchSize(estimate.config)
        base == BaseHours(estimate.model)
        rate == HARDWARE_COSTS(estimate.hardware)
        hours == r.duration_hours
        cost == r.estimated_cost
    IN  (r.status # 0 /\ b > 0) =>
            /\ r.status = 200
            /\ hours.num * base.den * b = base.num * 8 * hours.den
            /\ cost.num * hours.den * rate.den = hours.num * rate.num * cost.den
            /\ LET doubled == CostResponse(estimate.model, estimate.hardware,
                                           BatchConfig(2 * b)).duration_hours
               IN  2 * doubled.num * hours.den = hours.num * doubled.den
            /\ estimate.model \notin (ModelNames \ {"mistral-7b"})
                  => hours.num * b = 8 * hours.den
            /\ (estimate.model = "llama3-2-1b" /\ estimate.hardware = "gpu" /\ b = 8)
                  => (hours.num = 1 /\ hours.den = 1 /\ cost.num = 1 /\ cost.den = 1)

C13_Witness ==
    /\ estimate.model = "llama3-2-3b"
    /\ estimate.hardware = "tpu"
    /\ "batch_size" \in DOMAIN estimate.config
    /\ BatchSize(estimate.config) = 16
    /\ estimate.response.status = 200
    /\ estimate.response.duration_hours = [num |-> 5, den |-> 4]
    /\ estimate.response.estimated_cost = [num |-> 161, den |-> 40]

\* C14: estimate_cost called with batch_size <= 0 fails and returns no
\* estimate.
C14_NonPositiveBatchRejected ==
    (estimate.response.status # 0 /\ BatchSize(estimate.config) <= 0)
        => estimate.response.status # 200

\* ============================================================ list_jobs
\* C20: list_jobs(user_id, limit) with limit >= 0 returns only jobs whose
\* config user_id equals the filter (all jobs without a filter), at most
\* limit of them, and exactly min(limit, number of matching stored jobs).
C20_ListReturnsMinLimitMatching ==
    [][listing' # listing =>
          LET r == listing'
              matching == {j \in DOMAIN redis : MatchesUser(redis[j], r.user_id)}
          IN  /\ \A i \in 1..Len(r.jobs) : r.jobs[i] \in matching
              /\ Len(r.jobs) <= r.limit
              /\ Len(r.jobs) = IF r.limit <= Cardinality(matching)
                               THEN r.limit ELSE Cardinality(matching)]_vars

\* ==================================================== subscriber cleanup
\* C19: a job whose subscribers have all been removed has no entry left in
\* active_connections: every entry that is present lists at least one
\* connection.
C19_NoEmptySubscriberEntry ==
    \A j \in DOMAIN active_connections : active_connections[j] # << >>

\* ============================================================ isolation
\* C12: while one job's monitor is blocked reading the next output line or
\* waiting for the process to exit, a queued monitor of another job can be
\* started, another job can be submitted, and the blocked job can be
\* cancelled.
C12_BlockedMonitorBlocksNobody ==
    \A j \in JobIds :
        pc[j] \in {"read", "wait"} =>
            /\ \A k \in JobIds \ {j} :
                  /\ pc[k] = "queued" => ENABLED MarkRunning(k)
                  /\ (pc[k] = "none" /\ k \notin DOMAIN redis /\ redisUp)
                        => ENABLED start_fine_tuning(k, NoConfig)
            /\ (j \in DOMAIN redis /\ redisUp) => ENABLED cancel_job(j)

\* ================================================================= push
\* C11: once the monitor has processed an output line and is back at the
\* top of its loop, every subscriber of the job whose connection is open
\* has received the record the monitor wrote for that line.
C11_WrittenRecordIsPushed ==
    \A j \in DOMAIN redis :
        (pc[j] = "read" /\ emitted[j] # << >> /\ j \in DOMAIN active_connections)
            => \A w \in Range(active_connections[j]) :
                  sock[w] = "open" => inbox[w] = {redis[j]}

====
